---- MODULE Spec2Model ----
(***************************************************************************)
(* Model of src/Native/Unix/System.Security.Cryptography.Native/pal_err.cpp *)
(* the C-callable accessors of the crypto library's per-thread error queue. *)
(*                                                                         *)
(* Every exported function is one atomic action.  The variables are the    *)
(* library's per-thread error queue and the frame of the most recent call: *)
(* who called what, with which arguments, and what came back.              *)
(*                                                                         *)
(* The library routines (the ERR_ family) and UnsignedCast of             *)
(* pal_utilities.h are not part of this file; they are modelled from their *)
(* description.                                                            *)
(***************************************************************************)
EXTENDS Integers, Sequences, FiniteSets

(* ------------------------------ bounds --------------------------------- *)

\* number of threads calling into the shim
NumThreads == 2

\* most entries a thread's queue holds in the model
MaxQueue == 2

\* true writable size of the buffer a caller hands to ErrErrorStringN
BufLen == 48

Threads == 1..NumThreads

(* ------------------------- error codes --------------------------------- *)

\* ERR_R_FATAL | 1, the reason the library records when an allocation fails
ERR_R_MALLOC_FAILURE == 65

\* ERR_PACK(l, f, r): library in bits 24..31, function in 12..23, reason in 0..11
ERR_PACK(l, f, r) == ((l % 256) * 16777216) + ((f % 4096) * 4096) + (r % 4096)

\* ERR_GET_LIB / ERR_GET_FUNC / ERR_GET_REASON: the fields of a packed code
ERR_GET_LIB(l) == (l \div 16777216) % 256

ERR_GET_FUNC(l) == (l \div 4096) % 4096

ERR_GET_REASON(l) == l % 4096

\* 0x0A000001: library 10, reason 1
CodePlain == ERR_PACK(10, 0, 1)

\* 0x0A000041: library 10, reason ERR_R_MALLOC_FAILURE
CodeMalloc == ERR_PACK(10, 0, ERR_R_MALLOC_FAILURE)

\* 0x41041001: library and function number 65, but reason 1
CodeDecoy == ERR_PACK(65, 65, 1)

\* the codes other library operations push in the model
Codes == {CodePlain, CodeMalloc, CodeDecoy}

\* the codes a caller passes to the decoding functions (0 is in no queue)
ArgCodes == Codes \cup {0}

(* ---------------------------- characters ------------------------------- *)

\* the terminating NUL
NUL == 0

\* what a caller's buffer holds before the call ('#')
FILL == 35

\* a buffer as the caller allocates it
FreshBuf == [i \in 1..BufLen |-> FILL]

\* what the caller's int32 flag slot holds before the call
SlotInit == -1

\* a char* : the null pointer, or a pointer to NUL-terminated text
NullStr == [null |-> TRUE, text |-> <<>>]

StrOf(s) == [null |-> FALSE, text |-> s]

\* a size_t argument never passed
NotForwarded == <<>>

RECURSIVE Dec(_)
\* "%lu"
Dec(n) == IF n < 10 THEN <<48 + n>> ELSE Dec(n \div 10) \o <<48 + (n % 10)>>

\* one upper-case hexadecimal digit
HexDigit(d) == IF d < 10 THEN 48 + d ELSE 55 + d

RECURSIVE HexN(_, _)
\* "%0nlX" for a value below 16^n
HexN(v, n) == IF n = 0 THEN <<>> ELSE HexN(v \div 16, n - 1) \o <<HexDigit(v % 16)>>

(* --------------------- the library's error queue ----------------------- *)

VARIABLES queue, before, op, caller, ret, slotGiven, isAllocFailure, e, len, buf, fwdLen, str, aborted

vars == <<queue, before, op, caller, ret, slotGiven, isAllocFailure, e, len, buf, fwdLen, str, aborted>>

\* ERR_get_state(): the error state of the calling thread
ERR_get_state(t) == queue[t]

\* ERR_put_error: another library operation records an error on thread t
ERR_put_error(t, c) == Append(ERR_get_state(t), c)

\* ERR_clear_error: drop every entry of the calling thread's queue
ERR_clear_error(t) == <<>>

\* ERR_get_error: remove and return the oldest entry, 0 on an empty queue
ERR_get_error(t) ==
    IF ERR_get_state(t) = <<>>
    THEN [ret |-> 0, es |-> <<>>]
    ELSE [ret |-> Head(ERR_get_state(t)), es |-> Tail(ERR_get_state(t))]

\* ERR_peek_error: the oldest entry, 0 on an empty queue
ERR_peek_error(t) ==
    IF ERR_get_state(t) = <<>> THEN 0 ELSE Head(ERR_get_state(t))

\* ERR_peek_last_error: the newest entry, 0 on an empty queue
ERR_peek_last_error(t) ==
    IF ERR_get_state(t) = <<>> THEN 0 ELSE ERR_get_state(t)[Len(ERR_get_state(t))]

\* ERR_reason_error_string: the text of a known reason, NULL otherwise
ERR_reason_error_string(l) ==
    IF ERR_GET_REASON(l) = ERR_R_MALLOC_FAILURE
    THEN StrOf(<<109, 97, 108, 108, 111, 99, 32, 102, 97, 105, 108, 117, 114, 101>>)
    ELSE NullStr

\* "error:%08lX:%s:%s:%s" with lib(%lu), func(%lu), reason(%lu) for unnamed fields
ErrorText(l) ==
    <<101, 114, 114, 111, 114, 58>> \o HexN(l, 8)
    \o <<58, 108, 105, 98, 40>> \o Dec(ERR_GET_LIB(l)) \o <<41>>
    \o <<58, 102, 117, 110, 99, 40>> \o Dec(ERR_GET_FUNC(l)) \o <<41>>
    \o <<58>>
    \o (IF ERR_reason_error_string(l).null
        THEN <<114, 101, 97, 115, 111, 110, 40>> \o Dec(ERR_GET_REASON(l)) \o <<41>>
        ELSE ERR_reason_error_string(l).text)

\* a size_t held as two 16-bit limbs <<high, low>>
SizeT(hi, lo) == <<hi, lo>>

\* min(n, size - 1) for a size_t of at least 1
FitBelow(n, size) ==
    IF size[1] > 0 THEN n ELSE IF n < size[2] - 1 THEN n ELSE size[2] - 1

\* ERR_error_string_n: write the text, cut to size - 1 characters, and a NUL
ERR_error_string_n(l, b, size) ==
    IF size = SizeT(0, 0)
    THEN b
    ELSE LET text == ErrorText(l)
             n == FitBelow(Len(text), size)
         IN  [i \in DOMAIN b |->
                 IF i <= n THEN text[i]
                 ELSE IF i = n + 1 THEN NUL
                 ELSE b[i]]

(* ------------------------- pal_utilities.h ----------------------------- *)

\* static_cast<uint32_t>(value): the value modulo 2^32, as two 16-bit limbs
StaticCastUnsigned(value) == SizeT((value \div 65536) % 65536, value % 65536)

\* UnsignedCast: the value checked to be non-negative, then cast to unsigned
UnsignedCast(value) == [ok |-> value >= 0, val |-> StaticCastUnsigned(value)]

(* ------------------------- the call frame ------------------------------ *)

\* the call is made by thread t and is the most recent one; before keeps the
\* queues as they were when it was made
Called(name, t) == op' = name /\ caller' = t /\ before' = queue

\* the call returns no error code and takes no flag slot
NoCode == ret' = 0 /\ slotGiven' = FALSE /\ isAllocFailure' = SlotInit

\* the call takes no flag slot
NoSlot == slotGiven' = FALSE /\ isAllocFailure' = SlotInit

\* the call decodes no code and formats nothing
NoText == e' = 0 /\ len' = 0 /\ buf' = FreshBuf /\ fwdLen' = NotForwarded /\ str' = NullStr

(* ------------------------------ Init ----------------------------------- *)

Init ==
    /\ queue = [t \in Threads |-> <<>>]
    /\ before = queue
    /\ op = "none"
    /\ caller = 1
    /\ ret = 0
    /\ slotGiven = FALSE
    /\ isAllocFailure = SlotInit
    /\ e = 0
    /\ len = 0
    /\ buf = FreshBuf
    /\ fwdLen = NotForwarded
    /\ str = NullStr
    /\ aborted = FALSE

(* --------------- what the rest of the library does --------------------- *)

\* some other library operation fails on thread t and records the code c
LibraryRecordsError(t, c) ==
    /\ ~aborted
    /\ Len(queue[t]) < MaxQueue
    /\ queue' = [queue EXCEPT ![t] = ERR_put_error(t, c)]
    /\ Called("ERR_put_error", t)
    /\ NoCode
    /\ NoText
    /\ UNCHANGED aborted

(* --------------------------- pal_err.cpp ------------------------------- *)

\* variant: drops only the oldest entry
CryptoNative_ErrClearError_PopsOne(t) ==
    /\ ~aborted
    /\ queue' = [queue EXCEPT ![t] = ERR_get_error(t).es]
    /\ Called("ErrClearError", t)
    /\ NoCode
    /\ NoText
    /\ UNCHANGED aborted

CryptoNative_ErrClearError(t) ==
    /\ ~aborted
    /\ queue' = [queue EXCEPT ![t] = ERR_clear_error(t)]
    /\ Called("ErrClearError", t)
    /\ NoCode
    /\ NoText
    /\ UNCHANGED aborted

\* variant: returns the oldest entry but leaves it queued
CryptoNative_ErrGetError_Peeks(t) ==
    /\ ~aborted
    /\ ret' = ERR_peek_error(t)
    /\ Called("ErrGetError", t)
    /\ NoSlot
    /\ NoText
    /\ UNCHANGED <<queue, aborted>>

\* variant: reads one error state shared by all threads
CryptoNative_ErrGetError_Shared(t) ==
    /\ ~aborted
    /\ queue' = [queue EXCEPT ![1] = ERR_get_error(1).es]
    /\ ret' = ERR_get_error(1).ret
    /\ Called("ErrGetError", t)
    /\ NoSlot
    /\ NoText
    /\ UNCHANGED aborted

CryptoNative_ErrGetError(t) ==
    /\ ~aborted
    /\ queue' = [queue EXCEPT ![t] = ERR_get_error(t).es]
    /\ ret' = ERR_get_error(t).ret
    /\ Called("ErrGetError", t)
    /\ NoSlot
    /\ NoText
    /\ UNCHANGED aborted

\* variant: compares the whole code, not its reason, with ERR_R_MALLOC_FAILURE
CryptoNative_ErrGetErrorAlloc_WholeCode(t, given) ==
    /\ ~aborted
    /\ LET err == ERR_get_error(t).ret IN
         /\ queue' = [queue EXCEPT ![t] = ERR_get_error(t).es]
         /\ slotGiven' = given
         /\ isAllocFailure' =
               IF given
               THEN (IF err = ERR_R_MALLOC_FAILURE THEN 1 ELSE 0)
               ELSE SlotInit
         /\ ret' = err
    /\ Called("ErrGetErrorAlloc", t)
    /\ NoText
    /\ UNCHANGED aborted

\* variant: writes through isAllocFailure without testing it; a null pointer
\* ends the process
CryptoNative_ErrGetErrorAlloc_NoNullTest(t, given) ==
    /\ ~aborted
    /\ LET err == ERR_get_error(t).ret IN
         /\ queue' = [queue EXCEPT ![t] = ERR_get_error(t).es]
         /\ slotGiven' = given
         /\ isAllocFailure' =
               IF given
               THEN (IF ERR_GET_REASON(err) = ERR_R_MALLOC_FAILURE THEN 1 ELSE 0)
               ELSE SlotInit
         /\ ret' = err
         /\ aborted' = ~given
    /\ Called("ErrGetErrorAlloc", t)
    /\ NoText

\* given: whether isAllocFailure is a non-null pointer
CryptoNative_ErrGetErrorAlloc(t, given) ==
    /\ ~aborted
    /\ LET err == ERR_get_error(t).ret IN
         /\ queue' = [queue EXCEPT ![t] = ERR_get_error(t).es]
         /\ slotGiven' = given
         /\ isAllocFailure' =
               IF given
               THEN (IF ERR_GET_REASON(err) = ERR_R_MALLOC_FAILURE THEN 1 ELSE 0)
               ELSE SlotInit
         /\ ret' = err
    /\ Called("ErrGetErrorAlloc", t)
    /\ NoText
    /\ UNCHANGED aborted

\* variant: removes the entry it returns
CryptoNative_ErrPeekError_Pops(t) ==
    /\ ~aborted
    /\ queue' = [queue EXCEPT ![t] = ERR_get_error(t).es]
    /\ ret' = ERR_get_error(t).ret
    /\ Called("ErrPeekError", t)
    /\ NoSlot
    /\ NoText
    /\ UNCHANGED aborted

CryptoNative_ErrPeekError(t) ==
    /\ ~aborted
    /\ ret' = ERR_peek_error(t)
    /\ Called("ErrPeekError", t)
    /\ NoSlot
    /\ NoText
    /\ UNCHANGED <<queue, aborted>>

\* variant: returns the oldest entry
CryptoNative_ErrPeekLastError_Oldest(t) ==
    /\ ~aborted
    /\ ret' = ERR_peek_error(t)
    /\ Called("ErrPeekLastError", t)
    /\ NoSlot
    /\ NoText
    /\ UNCHANGED <<queue, aborted>>

CryptoNative_ErrPeekLastError(t) ==
    /\ ~aborted
    /\ ret' = ERR_peek_last_error(t)
    /\ Called("ErrPeekLastError", t)
    /\ NoSlot
    /\ NoText
    /\ UNCHANGED <<queue, aborted>>

CryptoNative_ErrReasonErrorString(t, error) ==
    /\ ~aborted
    /\ str' = ERR_reason_error_string(error)
    /\ e' = error
    /\ Called("ErrReasonErrorString", t)
    /\ NoCode
    /\ len' = 0 /\ buf' = FreshBuf /\ fwdLen' = NotForwarded
    /\ UNCHANGED <<queue, aborted>>

\* variant: hands the library one byte more than the caller's capacity
CryptoNative_ErrErrorStringN_OffByOne(t, code, b, length) ==
    /\ ~aborted
    /\ e' = code
    /\ len' = length
    /\ IF UnsignedCast(length).ok
       THEN /\ buf' = ERR_error_string_n(code, b, UnsignedCast(length + 1).val)
            /\ fwdLen' = UnsignedCast(length + 1).val
            /\ aborted' = FALSE
       ELSE /\ buf' = b
            /\ fwdLen' = NotForwarded
            /\ aborted' = TRUE
    /\ Called("ErrErrorStringN", t)
    /\ NoCode
    /\ str' = NullStr
    /\ UNCHANGED queue

\* variant: casts the length to unsigned without checking its sign
CryptoNative_ErrErrorStringN_RawCast(t, code, b, length) ==
    /\ ~aborted
    /\ e' = code
    /\ len' = length
    /\ buf' = ERR_error_string_n(code, b, StaticCastUnsigned(length))
    /\ fwdLen' = StaticCastUnsigned(length)
    /\ Called("ErrErrorStringN", t)
    /\ NoCode
    /\ str' = NullStr
    /\ UNCHANGED <<queue, aborted>>

\* variant: clears the calling thread's queue once the text is written
CryptoNative_ErrErrorStringN_Clears(t, code, b, length) ==
    /\ ~aborted
    /\ e' = code
    /\ len' = length
    /\ IF UnsignedCast(length).ok
       THEN /\ buf' = ERR_error_string_n(code, b, UnsignedCast(length).val)
            /\ fwdLen' = UnsignedCast(length).val
            /\ aborted' = FALSE
       ELSE /\ buf' = b
            /\ fwdLen' = NotForwarded
            /\ aborted' = TRUE
    /\ queue' = [queue EXCEPT ![t] = ERR_clear_error(t)]
    /\ Called("ErrErrorStringN", t)
    /\ NoCode
    /\ str' = NullStr

\* b: the caller's buffer as handed in; a failed check of the length ends the process
CryptoNative_ErrErrorStringN(t, code, b, length) ==
    /\ ~aborted
    /\ e' = code
    /\ len' = length
    /\ IF UnsignedCast(length).ok
       THEN /\ buf' = ERR_error_string_n(code, b, UnsignedCast(length).val)
            /\ fwdLen' = UnsignedCast(length).val
            /\ aborted' = FALSE
       ELSE /\ buf' = b
            /\ fwdLen' = NotForwarded
            /\ aborted' = TRUE
    /\ Called("ErrErrorStringN", t)
    /\ NoCode
    /\ str' = NullStr
    /\ UNCHANGED queue

(* ------------------------- specifications ------------------------------ *)

\* the codes the library records next to calls from several threads
TwoCodes == {CodePlain, CodeMalloc}

\* the lengths a caller passes next to the queue operations: a negative one
\* and one shorter than any text
SomeLens == {-1, 8}

\* every length up to the buffer's true size, and negative ones
AllLens == (-2)..BufLen

\* every exported function, called from every thread in any order, while the
\* library records errors
Next ==
    \/ \E t \in Threads, c \in TwoCodes : LibraryRecordsError(t, c)
    \/ \E t \in Threads : CryptoNative_ErrClearError(t)
    \/ \E t \in Threads : CryptoNative_ErrGetError(t)
    \/ \E t \in Threads, given \in BOOLEAN : CryptoNative_ErrGetErrorAlloc(t, given)
    \/ \E t \in Threads : CryptoNative_ErrPeekError(t)
    \/ \E t \in Threads : CryptoNative_ErrPeekLastError(t)
    \/ \E t \in Threads, error \in TwoCodes : CryptoNative_ErrReasonErrorString(t, error)
    \/ \E t \in Threads, length \in SomeLens :
          CryptoNative_ErrErrorStringN(t, CodeMalloc, FreshBuf, length)

Spec == Init /\ [][Next]_vars

\* the functions that return or decode a code, on one thread, with every code
\* of the model
NextQueue ==
    \/ \E c \in Codes : LibraryRecordsError(1, c)
    \/ CryptoNative_ErrClearError(1)
    \/ CryptoNative_ErrGetError(1)
    \/ \E given \in BOOLEAN : CryptoNative_ErrGetErrorAlloc(1, given)
    \/ CryptoNative_ErrPeekError(1)
    \/ CryptoNative_ErrPeekLastError(1)
    \/ \E error \in ArgCodes : CryptoNative_ErrReasonErrorString(1, error)

SpecQueue == Init /\ [][NextQueue]_vars

\* the decoding functions on one thread, with every code and every length
NextText ==
    \/ \E c \in TwoCodes : LibraryRecordsError(1, c)
    \/ \E error \in ArgCodes : CryptoNative_ErrReasonErrorString(1, error)
    \/ \E code \in ArgCodes, length \in AllLens :
          CryptoNative_ErrErrorStringN(1, code, FreshBuf, length)

SpecText == Init /\ [][NextText]_vars

TypeOK ==
    /\ queue \in [Threads -> UNION {[1..n -> Codes] : n \in 0..MaxQueue}]
    /\ before \in [Threads -> UNION {[1..n -> Codes] : n \in 0..MaxQueue}]
    /\ caller \in Threads
    /\ ret \in ArgCodes
    /\ slotGiven \in BOOLEAN
    /\ isAllocFailure \in {SlotInit, 0, 1}
    /\ e \in ArgCodes
    /\ len \in AllLens
    /\ aborted \in BOOLEAN

(* --------------------- vocabulary of the properties -------------------- *)

\* the oldest entry of a queue, 0 if there is none
Oldest(q) == IF Len(q) = 0 THEN 0 ELSE q[1]

\* the newest entry of a queue, 0 if there is none
Newest(q) == IF Len(q) = 0 THEN 0 ELSE q[Len(q)]

\* a queue without its oldest entry
Rest(q) == IF Len(q) = 0 THEN <<>> ELSE SubSeq(q, 2, Len(q))

\* q is what remains of p after some of p's oldest entries were removed
IsSuffix(q, p) == Len(q) <= Len(p) /\ q = SubSeq(p, Len(p) - Len(q) + 1, Len(p))

\* this step is a call of the named function by thread t
Step(name, t) == op' = name /\ caller' = t

\* the exported functions that return a code of the queue
Readers == {"ErrGetError", "ErrGetErrorAlloc", "ErrPeekError", "ErrPeekLastError"}

\* all exported functions
Exported == Readers \cup {"ErrClearError", "ErrReasonErrorString", "ErrErrorStringN"}

(* ------------------------------ C1 ------------------------------------- *)

\* C1: a Get by thread t returns the oldest entry of t's queue (0 if the queue
\* is empty) and leaves exactly the remaining entries, in their order; so a
\* Get that follows a Get which emptied the queue returns 0.
C1_GetPopsOldest ==
    [][\A t \in Threads :
          Step("ErrGetError", t) =>
             /\ ret' = Oldest(queue[t])
             /\ queue'[t] = Rest(queue[t])
             /\ (Len(queue[t]) = 0 => ret' = 0 /\ queue'[t] = <<>>)]_vars

\* a Get has returned the older of two different queued codes and left the newer
C1_Witness ==
    /\ op = "ErrGetError"
    /\ Len(before[caller]) = 2
    /\ before[caller][1] # before[caller][2]
    /\ ret = before[caller][1]
    /\ queue[caller] = <<before[caller][2]>>

(* ------------------------------ C2 ------------------------------------- *)

\* C2: a Clear by thread t leaves t's queue empty whatever it held; on an empty
\* queue every reading function returns 0 and leaves it empty; and an empty
\* queue stays empty in every step but the library recording an error on t.
C2_ClearEmpties ==
    [][\A t \in Threads :
          /\ Step("ErrClearError", t) => queue'[t] = <<>> /\ ~aborted'
          /\ (Len(queue[t]) = 0 /\ caller' = t /\ op' \in Readers)
                => ret' = 0 /\ queue'[t] = <<>>
          /\ (Len(queue[t]) = 0 /\ ~Step("ERR_put_error", t))
                => queue'[t] = <<>>]_vars

\* a Clear has emptied a queue that held two entries
C2_Witness ==
    /\ op = "ErrClearError"
    /\ Len(before[caller]) = 2
    /\ queue[caller] = <<>>

(* ------------------------------ C3 ------------------------------------- *)

\* C3: a Peek by thread t returns the oldest entry of t's queue (0 if empty)
\* and changes no queue; a Peek or a Get that t issues right after a Peek
\* returns the code that Peek returned.
C3_PeekOldestUnchanged ==
    [][\A t \in Threads :
          /\ Step("ErrPeekError", t) => ret' = Oldest(queue[t]) /\ queue' = queue
          /\ (op = "ErrPeekError" /\ caller = t /\ caller' = t
                 /\ op' \in {"ErrPeekError", "ErrGetError"})
                => ret' = ret]_vars

\* a Peek has returned the older of two different queued codes, both still queued
C3_Witness ==
    /\ op = "ErrPeekError"
    /\ Len(queue[caller]) = 2
    /\ queue[caller][1] # queue[caller][2]
    /\ ret = queue[caller][1]
    /\ before = queue

(* ------------------------------ C4 ------------------------------------- *)

\* C4: a Peek-last by thread t returns the newest entry of t's queue (0 if
\* empty) and changes no queue; right after a Peek on a queue of exactly one
\* entry it returns the code that Peek returned.
C4_PeekLastNewestUnchanged ==
    [][\A t \in Threads :
          /\ Step("ErrPeekLastError", t) => ret' = Newest(queue[t]) /\ queue' = queue
          /\ (op = "ErrPeekError" /\ caller = t /\ Step("ErrPeekLastError", t)
                 /\ Len(queue[t]) = 1)
                => ret' = ret]_vars

\* a Peek-last has returned the newer of two different queued codes, both still queued
C4_Witness ==
    /\ op = "ErrPeekLastError"
    /\ Len(queue[caller]) = 2
    /\ queue[caller][1] # queue[caller][2]
    /\ ret = queue[caller][2]
    /\ before = queue

(* ------------------------------ C5 ------------------------------------- *)

\* C5: after a Get-with-allocation-flag that was given a slot, the slot holds
\* 1 or 0, and 1 exactly when the low twelve bits (the reason) of the returned
\* code are the allocation-failure reason; with an empty queue it holds 0.
C5_FlagIffMallocReason ==
    (op = "ErrGetErrorAlloc" /\ slotGiven) =>
        /\ isAllocFailure \in {0, 1}
        /\ (isAllocFailure = 1) <=> (ret % 4096 = 65)
        /\ (Len(before[caller]) = 0 => ret = 0 /\ isAllocFailure = 0)

\* the flag was set for an allocation failure popped from the queue
C5_Witness ==
    /\ op = "ErrGetErrorAlloc"
    /\ slotGiven
    /\ Len(before[caller]) > 0
    /\ ret = before[caller][1]
    /\ ret % 4096 = 65
    /\ isAllocFailure = 1

(* ------------------------------ C6 ------------------------------------- *)

\* C6: a Get-with-allocation-flag by thread t, with or without a slot, returns
\* the oldest entry of t's queue (0 if empty) and leaves the remaining entries,
\* as Get does; without a slot it writes no flag and the process goes on.
C6_GetAllocPopsLikeGet ==
    [][\A t \in Threads :
          Step("ErrGetErrorAlloc", t) =>
             /\ ret' = Oldest(queue[t])
             /\ queue'[t] = Rest(queue[t])
             /\ ~aborted'
             /\ (~slotGiven' => isAllocFailure' = SlotInit)]_vars

\* a Get-with-allocation-flag without a slot has popped the older of two entries
C6_Witness ==
    /\ op = "ErrGetErrorAlloc"
    /\ ~slotGiven
    /\ ~aborted
    /\ isAllocFailure = SlotInit
    /\ Len(before[caller]) = 2
    /\ ret = before[caller][1]
    /\ queue[caller] = <<before[caller][2]>>

(* ------------------------------ C7 ------------------------------------- *)

\* C7: after Format-into-buffer with a capacity of at least 1, every byte of
\* the buffer at (0-based) index >= capacity is as the caller left it, and a
\* NUL stands at some index < capacity.
C7_FormatWithinCapacity ==
    (op = "ErrErrorStringN" /\ len >= 1) =>
        /\ ~aborted
        /\ \A i \in 1..BufLen : i - 1 >= len => buf[i] = FILL
        /\ \E i \in 1..BufLen : i - 1 < len /\ buf[i] = NUL

\* a text longer than the capacity was cut: the NUL is the last byte allowed
C7_Witness ==
    /\ op = "ErrErrorStringN"
    /\ len = 8
    /\ e = CodePlain
    /\ buf[len] = NUL
    /\ \A i \in 1..(len - 1) : buf[i] # NUL /\ buf[i] # FILL
    /\ \A i \in (len + 1)..BufLen : buf[i] = FILL

(* ------------------------------ C9 ------------------------------------- *)

C8_OwnQueueOnly ==
    [][\A t \in Threads :
          (caller' = t /\ op' \in Exported) =>
             /\ \A u \in Threads \ {t} : queue'[u] = queue[u]
             /\ ret' \in {0, Oldest(queue[t]), Newest(queue[t])}
             /\ queue'[t] \in {queue[t], Rest(queue[t]), <<>>}]_vars

\* thread 1 has popped an entry while thread 2 holds two untouched entries
C8_Witness ==
    /\ op = "ErrGetError"
    /\ caller = 1
    /\ Len(before[1]) > 0
    /\ ret = before[1][1]
    /\ Len(queue[2]) = 2
    /\ queue[2] = before[2]
    /\ queue[2][1] # ret

(* ------------------------------ C10 ------------------------------------ *)

\* C10: no call of an exported function adds, inserts or reorders an entry in
\* any queue: each queue afterwards is what remains after removing some of its
\* oldest entries; Get and Get-with-allocation-flag remove at most one, Clear
\* removes all, and Peek, Peek-last, Reason-string and Format-into-buffer
\* leave every queue unchanged.
C10_ShimNeverCreates ==
    [][op' \in Exported =>
          /\ \A u \in Threads : IsSuffix(queue'[u], queue[u])
          /\ op' \in {"ErrGetError", "ErrGetErrorAlloc"}
                => Len(queue'[caller']) >= Len(queue[caller']) - 1
          /\ op' = "ErrClearError" => queue'[caller'] = <<>>
          /\ op' \in {"ErrPeekError", "ErrPeekLastError",
                      "ErrReasonErrorString", "ErrErrorStringN"}
                => queue' = queue]_vars

\* Reason-string decoded a code that is in no queue, with two entries queued
C10_Witness ==
    /\ op = "ErrReasonErrorString"
    /\ Len(queue[caller]) = 2
    /\ \A i \in 1..2 : queue[caller][i] # e
    /\ ~str.null
    /\ queue = before

====
